---- MODULE Spec2Model ----
(***************************************************************************)
(* A model of the transformer record-store toolkit: the in-memory          *)
(* SliceStore (src/store/slicestore.go), the LevelDbStore adapter          *)
(* (src/store/leveldb.go) and the stream components exercised by the       *)
(* examples in src/unnamed/part_000 (demux reader, mux writer, exclusion   *)
(* reader, truncating writer, grouper).                                    *)
(*                                                                         *)
(* A record is [key, value, idx]: Key and Value are byte strings, modelled *)
(* as small integers ordered like the byte strings they stand for          *)
(* (bytes.Compare), idx is the DatabaseIndex tag.  The end-of-stream       *)
(* result of ReadRecord (a nil record) is NilRecord, whose key 0 is no     *)
(* key of the model.                                                       *)
(***************************************************************************)
EXTENDS Integers, Sequences, FiniteSets, TLC

\* ------------------------------------------------------------------ bounds
MaxKey == 3
MaxVal == 2
MaxCursor == 3
LdbMaxKey == 2
NumInputs == 2
ExMaxKey == 4
NumSinks == 2
MaxSessions == 2
MaxField == 2
MaxStream == 4
MaxSessionWrites == 2
MaxMuxWrites == 3
MaxSource == 3
MaxExcluded == 2

Keys == 1..MaxKey
Values == 1..MaxVal
LdbKeys == 1..LdbMaxKey

Rec(k, v, d) == [key |-> k, value |-> v, idx |-> d]
NilRecord == Rec(0, 0, 0)

Min(S) == CHOOSE x \in S : \A y \in S : x <= y
Max(S) == CHOOSE x \in S : \A y \in S : x >= y

\* ------------------------------------------------------- SliceStore (code)
\* A SliceStore value is [records, cursor]; cursor is the Go 0-based index of
\* the record last returned (-1 before the first), records a 1-based sequence,
\* so Go's records[i] is records[i + 1] here.

\* recordSlice.Less: bytes.Compare(p[i].Key, p[j].Key) < 0
Less(a, b) == a.key < b.key

RECURSIVE InsertSorted(_, _)
InsertSorted(r, s) ==
    IF s = <<>> THEN <<r>>
    ELSE IF Less(r, Head(s)) THEN <<r>> \o s
    ELSE <<Head(s)>> \o InsertSorted(r, Tail(s))

RECURSIVE SortRecords(_)
\* sort.Sort(recordSlice(store.records)): the records ordered by Less.
SortRecords(s) ==
    IF s = <<>> THEN <<>> ELSE InsertSorted(Head(s), SortRecords(Tail(s)))

SliceBeginReadingNoReset(s) ==
    [records |-> SortRecords(s.records), cursor |-> s.cursor]
SliceBeginReadingNoSort(s) == [records |-> s.records, cursor |-> -1]
SliceBeginReading(s) == [records |-> SortRecords(s.records), cursor |-> -1]

\* ReadRecord: the record returned and the store afterwards.
SliceReadRecord(s) ==
    LET c == s.cursor + 1
    IN  [store |-> [s EXCEPT !.cursor = c],
         rec   |-> IF c >= Len(s.records) THEN NilRecord ELSE s.records[c + 1]]

RECURSIVE SliceReadUntilNil(_, _)
\* the loop of Print: ReadRecord until it returns nil; the store afterwards
\* and the records the calls returned, the closing nil included
SliceReadUntilNil(s, out) ==
    LET r == SliceReadRecord(s)
    IN  IF r.rec = NilRecord
        THEN [store |-> r.store, out |-> Append(out, r.rec)]
        ELSE SliceReadUntilNil(r.store, Append(out, r.rec))

\* Print: BeginReading, then the loop; the records are only logged
SlicePrint(s) == SliceReadUntilNil(SliceBeginReading(s), <<>>)

SliceWriteRecordAppend(s, r) == [s EXCEPT !.records = Append(@, r)]
SliceWriteRecord(s, r) ==
    LET hit == {i \in 1..Len(s.records) : s.records[i].key = r.key}
    IN  IF hit # {}
        THEN [s EXCEPT !.records[Min(hit)] = r]
        ELSE [s EXCEPT !.records = Append(@, r)]

SliceDeleteAllRecordsKeep(s) == s
SliceDeleteAllRecords(s) == [s EXCEPT !.records = <<>>]

RECURSIVE SeekLoop(_, _, _)
\* the for loop of Seek, entered with cursor c
SeekLoop(recs, c, k) ==
    IF c < Len(recs)
    THEN IF c + 1 >= Len(recs) \/ recs[c + 2].key >= k
         THEN c
         ELSE SeekLoop(recs, c + 1, k)
    ELSE c

RECURSIVE SeekLoopStrict(_, _, _)
SeekLoopStrict(recs, c, k) ==
    IF c < Len(recs)
    THEN IF c + 1 >= Len(recs) \/ recs[c + 2].key > k
         THEN c
         ELSE SeekLoopStrict(recs, c + 1, k)
    ELSE c

SliceSeekStrict(s, k) == [s EXCEPT !.cursor = SeekLoopStrict(s.records, -1, k)]
SliceSeekRelative(s, k) == [s EXCEPT !.cursor = SeekLoop(s.records, s.cursor, k)]
SliceSeekLargest(s, k) ==
    [s EXCEPT !.cursor =
        Max({c \in -1..(Len(s.records) - 2) : s.records[c + 2].key >= k}
            \cup {-1})]
SliceSeek(s, k) == [s EXCEPT !.cursor = SeekLoop(s.records, -1, k)]

EmptySlice == [records |-> <<>>, cursor |-> 0]

\* ======================================================================
\* The state.  Each component below is written, read and checked on its own:
\* a specification drives one component and leaves the others untouched.
VARIABLES
    backend,        \* "slice" or "leveldb": the store under test
    records,        \* SliceStore.records
    cursor,         \* SliceStore.cursor
    disk,           \* the LevelDB database: key -> value, 0 when absent
    db,             \* LevelDbStore.db: "nil", "open" or "closed"
    readOptions,    \* LevelDbStore.readOptions # nil
    writeOptions,   \* LevelDbStore.writeOptions # nil
    readIterator,   \* LevelDbStore.readIterator: [st, snap, pos]
    panicked,       \* "" or the message of the panic that ended the program
    lastOp,         \* the last call made on the store
    lastErr,        \* the last call returned a non-nil error
    session,        \* history: "none", or the read session begun by the last
                    \* BeginReading: "clean", "dirty" once WriteRecord was
                    \* called inside it
    run,            \* history: the results of the ReadRecord calls made
                    \* since the last BeginReading or Seek with no other call
                    \* between them: [kind, key, out], with moved: that
                    \* BeginReading reordered the records, rewound: that
                    \* BeginReading found the cursor past the first record
                    \* (SliceStore) or an earlier session's closed iterator
                    \* (LevelDbStore), or that the SliceStore Seek moved
                    \* the cursor backwards
    written,        \* history: key -> value of the last WriteRecord for the
                    \* key since the last DeleteAllRecords, 0 when none
    openIters,      \* history: read iterators BeginReading created and
                    \* EndReading has not closed
    openWriteOpts,  \* history: WriteOptions created and not yet closed
    replaced,       \* history: the last call was a WriteRecord for a key
                    \* that had been written before with another value
    writing,        \* history: the caller's write session: BeginWriting
                    \* returned nil and EndWriting was not called since
    openDbs,        \* history: database handles levigo.Open returned and
                    \* db.Close has not closed
    deleting        \* the DeleteAllRecords call in progress, which holds
                    \* dbOpenLock: [st, pending, raced] with st "idle" or
                    \* "loop", pending the keys its iterator has yet to
                    \* deliver, raced (history) that a WriteRecord stored a
                    \* record since the call began

sliceVars == <<records, cursor>>
ldbVars == <<disk, db, readOptions, writeOptions, readIterator, openIters,
             openWriteOpts, openDbs, deleting>>
histVars == <<panicked, lastOp, lastErr, session, run, written, replaced,
              writing>>
storeVars == <<backend, sliceVars, ldbVars, histVars>>

VARIABLES
    readers,        \* the sub-readers: a sequence of SliceStores
    frontier,       \* the head record pulled from each sub-reader
    demuxOut,       \* the records emitted so far, each with its input: [rec, src]
    demuxPhase      \* "writing", "reading", "ended" (end-of-stream), "closed"

demuxVars == <<readers, frontier, demuxOut, demuxPhase>>

VARIABLES
    source,         \* the wrapped source reader: a SliceStore
    excluded,       \* the excluded-ranges reader: a SliceStore whose records
                    \* are [key: begin, value: inclusive end]
    currentRange,   \* the interval the pointer is at: [b, e], NoRange when none
    excludingOut,   \* the records emitted so far
    excludingPhase  \* "writing", "reading", "ended", "closed"

excludingVars == <<source, excluded, currentRange, excludingOut, excludingPhase>>

VARIABLES
    sinks,          \* the sink writers: a sequence of SliceStores
    sinkOpened,     \* the sinks whose write session the mux has opened
    muxInput,       \* history: the records written to the mux, in order
    muxPhase,       \* "writing", "written", "reading", "done", "panicked"
    readingSink,    \* the sink being read back (0: none yet)
    sinkState,      \* of the sink being read: "idle", "open", "ended"
    sinkOut         \* the records each sink returned when read back

muxVars == <<sinks, sinkOpened, muxInput, muxPhase, readingSink, sinkState,
             sinkOut>>

VARIABLES
    truncStore,     \* the underlying SliceStore
    truncPhase,     \* "idle", "writing", "reading", "ended"
    sessions,       \* history: the write sessions completed
    sessionWrites,  \* history: the records written in the current session,
                    \* or in the last completed one when none is open
    earlierKeys,    \* history: the keys written in the sessions before it
    truncOut        \* the records the underlying store returned when read

truncVars == <<truncStore, truncPhase, sessions, sessionWrites, earlierKeys,
               truncOut>>

VARIABLES
    stream,         \* history: the whole input, as sent on the channel
    input,          \* the records still in the channel
    peeked,         \* the record read ahead and not yet yielded (NoRecord: none)
    current,        \* the record Read returns
    activePrefix,   \* the prefix of the current group (<<>> before the first)
    grouperPc,      \* the driver's next call: "NextGroup", "NextRecord",
                    \* "Read", or "done" when NextGroup returned false
    groups,         \* history: the records Read returned, group by group
    groupPrefixes   \* history: the prefix handed to the caller for each group

grouperVars == <<stream, input, peeked, current, activePrefix, grouperPc,
                 groups, groupPrefixes>>

notStore == <<demuxVars, excludingVars, muxVars, truncVars, grouperVars>>
notDemux == <<storeVars, excludingVars, muxVars, truncVars, grouperVars>>
notExcluding == <<storeVars, demuxVars, muxVars, truncVars, grouperVars>>
notMux == <<storeVars, demuxVars, excludingVars, truncVars, grouperVars>>
notTruncating == <<storeVars, demuxVars, excludingVars, muxVars, grouperVars>>
notGrouper == <<storeVars, demuxVars, excludingVars, muxVars, truncVars>>
vars == <<storeVars, demuxVars, excludingVars, muxVars, truncVars, grouperVars>>

\* ------------------------------------------------------------ store state

slice == [records |-> records, cursor |-> cursor]

NoRun == [kind |-> "none", key |-> 0, out |-> <<>>, moved |-> FALSE,
          rewound |-> FALSE]
BeginRun(moved, rewound) ==
    [kind |-> "begin", key |-> 0, out |-> <<>>, moved |-> moved,
     rewound |-> rewound]
SeekRun(k) ==
    [kind |-> "seek", key |-> k, out |-> <<>>, moved |-> FALSE,
     rewound |-> FALSE]
SeekRunFrom(k, back) == [SeekRun(k) EXCEPT !.rewound = back]
NoWrites == [k \in Keys |-> 0]
NilIterator == [st |-> "nil", snap |-> <<>>, pos |-> 0]
ClosedIterator == [st |-> "closed", snap |-> <<>>, pos |-> 0]
NotDeleting == [st |-> "idle", pending |-> {}, raced |-> FALSE]

PanicReadTwice == "Only one routine may read from a LevelDB at a time."
PanicWriteTwice == "Only one routine may write to a LevelDB at a time."
PanicSeek == "You may only seek while reading"
PanicDelete == "You may only call DeleteAllRecords after starting reading or writing"
PanicNil == "invalid memory address or nil pointer dereference"
PanicFreed == "unexpected signal during runtime execution"

StoreInit ==
    /\ backend \in {"slice", "leveldb"}
    /\ records = <<>>
    /\ cursor = 0
    /\ disk = [k \in LdbKeys |-> 0]
    /\ db = "nil"
    /\ readOptions = FALSE
    /\ writeOptions = FALSE
    /\ readIterator = NilIterator
    /\ openIters = 0
    /\ openWriteOpts = 0
    /\ panicked = ""
    /\ lastOp = "new"
    /\ lastErr = FALSE
    /\ session = "none"
    /\ run = NoRun
    /\ written = NoWrites
    /\ replaced = FALSE
    /\ writing = FALSE
    /\ openDbs = 0
    /\ deleting = NotDeleting

Returned(r) == IF run.kind = "none" THEN run ELSE [run EXCEPT !.out = Append(@, r)]

\* ---------------------------------------------------- SliceStore methods
SliceStore_BeginReading ==
    /\ backend = "slice" /\ panicked = ""
    /\ records' = SliceBeginReading(slice).records
    /\ cursor' = SliceBeginReading(slice).cursor
    /\ lastOp' = "BeginReading" /\ lastErr' = FALSE
    /\ session' = "clean"
    /\ run' = BeginRun(records' # records, cursor > 0)
    /\ replaced' = FALSE
    /\ UNCHANGED <<backend, ldbVars, panicked, written>>
    /\ UNCHANGED writing
    /\ UNCHANGED notStore

SliceStore_ReadRecord ==
    /\ backend = "slice" /\ panicked = ""
    /\ cursor < MaxCursor
    /\ cursor' = SliceReadRecord(slice).store.cursor
    /\ run' = Returned(SliceReadRecord(slice).rec)
    /\ lastOp' = "ReadRecord" /\ lastErr' = FALSE /\ replaced' = FALSE
    /\ UNCHANGED <<backend, records, ldbVars, panicked, session, written>>
    /\ UNCHANGED writing
    /\ UNCHANGED notStore

SliceStore_EndReading ==
    /\ backend = "slice" /\ panicked = ""
    /\ lastOp' = "EndReading" /\ lastErr' = FALSE /\ replaced' = FALSE
    /\ session' = "none"
    /\ run' = NoRun
    /\ UNCHANGED <<backend, sliceVars, ldbVars, panicked, written>>
    /\ UNCHANGED writing
    /\ UNCHANGED notStore

SliceStore_BeginWriting ==
    /\ backend = "slice" /\ panicked = ""
    /\ lastOp' = "BeginWriting" /\ lastErr' = FALSE /\ replaced' = FALSE
    /\ run' = NoRun
    /\ UNCHANGED <<backend, sliceVars, ldbVars, panicked, session, written>>
    /\ writing' = TRUE
    /\ UNCHANGED notStore

SliceStore_WriteRecord ==
    /\ backend = "slice" /\ panicked = ""
    /\ \E k \in Keys, v \in Values :
        /\ records' = SliceWriteRecord(slice, Rec(k, v, 0)).records
        /\ written' = [written EXCEPT ![k] = v]
        /\ replaced' = (written[k] \notin {0, v})
    /\ lastOp' = "WriteRecord" /\ lastErr' = FALSE
    /\ session' = IF session = "none" THEN "none" ELSE "dirty"
    /\ run' = NoRun
    /\ UNCHANGED <<backend, cursor, ldbVars, panicked>>
    /\ UNCHANGED writing
    /\ UNCHANGED notStore

SliceStore_EndWriting ==
    /\ backend = "slice" /\ panicked = ""
    /\ lastOp' = "EndWriting" /\ lastErr' = FALSE /\ replaced' = FALSE
    /\ run' = NoRun
    /\ UNCHANGED <<backend, sliceVars, ldbVars, panicked, session, written>>
    /\ writing' = FALSE
    /\ UNCHANGED notStore

SliceStore_DeleteAllRecords ==
    /\ backend = "slice" /\ panicked = ""
    /\ records' = SliceDeleteAllRecords(slice).records
    /\ written' = NoWrites
    /\ lastOp' = "DeleteAllRecords" /\ lastErr' = FALSE /\ replaced' = FALSE
    /\ run' = NoRun
    /\ UNCHANGED <<backend, cursor, ldbVars, panicked, session>>
    /\ UNCHANGED writing
    /\ UNCHANGED notStore

SliceStore_Seek ==
    /\ backend = "slice" /\ panicked = ""
    /\ \E k \in Keys :
        /\ cursor' = SliceSeek(slice, k).cursor
        /\ run' = SeekRunFrom(k, cursor' < cursor)
    /\ lastOp' = "Seek" /\ lastErr' = FALSE /\ replaced' = FALSE
    /\ UNCHANGED <<backend, records, ldbVars, panicked, session, written>>
    /\ UNCHANGED writing
    /\ UNCHANGED notStore

SliceStore_Print ==
    /\ backend = "slice" /\ panicked = ""
    /\ records' = SlicePrint(slice).store.records
    /\ cursor' = SlicePrint(slice).store.cursor
    /\ lastOp' = "Print" /\ lastErr' = FALSE /\ replaced' = FALSE
    /\ session' = "clean"
    /\ run' = [BeginRun(records' # records, cursor > 0)
                  EXCEPT !.out = SlicePrint(slice).out]
    /\ UNCHANGED <<backend, ldbVars, panicked, written>>
    /\ UNCHANGED writing
    /\ UNCHANGED notStore

\* -------------------------------------------------- LevelDbStore methods
RECURSIVE DiskFrom(_, _)
\* what an iterator over the database d delivers from key k on: the stored
\* records in ascending key order
DiskFrom(d, k) ==
    IF k > LdbMaxKey THEN <<>>
    ELSE (IF d[k] = 0 THEN <<>> ELSE <<Rec(k, d[k], 0)>>) \o DiskFrom(d, k + 1)

\* db.NewIterator(ro) followed by SeekToFirst: a snapshot of the database
NewIterator(d) == [st |-> "open", snap |-> DiskFrom(d, 1), pos |-> 1]

\* readIterator.Seek(key): the first position whose key is >= key
IteratorSeek(it, k) ==
    [it EXCEPT !.pos = Min({i \in 1..Len(it.snap) : it.snap[i].key >= k}
                           \cup {Len(it.snap) + 1})]

\* openDatabase opens the database only when no session holds it open
openDatabaseIsOpen == readOptions \/ writeOptions

\* the levigo.Open calls openDatabase makes: none when a session holds the
\* database open
openDatabaseOpens == IF openDatabaseIsOpen THEN 0 ELSE 1

\* closeDatabase leaves the database open while both sessions are open; it
\* runs before the caller clears its own options field
closeDatabaseAlways == "closed"
closeDatabase == IF readOptions /\ writeOptions THEN db ELSE "closed"

\* the db.Close calls closeDatabase makes
closeDatabaseCloses == IF closeDatabase = "closed" THEN 1 ELSE 0

\* the keys an iterator created over the database d delivers
DiskKeys(d) == {k \in LdbKeys : d[k] # 0}

\* db.Delete(writeOptions, key)
DeleteKeyKeepsLast(d, k) == [d EXCEPT ![k] = IF k = LdbMaxKey THEN @ ELSE 0]
DeleteKey(d, k) == [d EXCEPT ![k] = 0]

\* the options field of a Begin call that returns the error of openDatabase:
\* the field is assigned after openDatabase returned nil, so it stays nil
OptionsSetBeforeOpen(o) == TRUE
OptionsAfterFailedOpen(o) == o

Panic(msg, op) ==
    /\ panicked' = msg
    /\ lastOp' = op /\ lastErr' = FALSE /\ replaced' = FALSE
    /\ UNCHANGED <<backend, sliceVars, ldbVars, session, run, written, writing>>

\* dbOpenLock.Lock() returns once no DeleteAllRecords call holds the lock
\* (every other holder takes and releases it within its own step)
dbOpenLockFree == deleting.st = "idle"

BeginReadingGuardMissing == FALSE
BeginReadingGuard == readOptions

BeginWritingGuardMissing == FALSE
BeginWritingGuard == writeOptions

LevelDbStore_BeginReading ==
    /\ backend = "leveldb" /\ panicked = ""
    /\ dbOpenLockFree /\ UNCHANGED deleting
    /\ IF BeginReadingGuard
       THEN Panic(PanicReadTwice, "BeginReading")
       ELSE \E ok \in BOOLEAN :
            IF ~openDatabaseIsOpen /\ ~ok
            THEN \* levigo.Open failed: the error is returned
                 /\ lastOp' = "BeginReading" /\ lastErr' = TRUE /\ replaced' = FALSE
                 /\ run' = NoRun
                 /\ readOptions' = OptionsAfterFailedOpen(readOptions)
                 /\ UNCHANGED <<backend, sliceVars, disk, db, writeOptions,
                                readIterator, openIters, openWriteOpts, openDbs,
                                panicked, session, written, writing>>
            ELSE /\ (openDatabaseIsOpen => ok)
                 /\ db' = "open"
                 /\ openDbs' = openDbs + openDatabaseOpens
                 /\ readOptions' = TRUE
                 /\ readIterator' = NewIterator(disk)
                 /\ openIters' = openIters + 1
                 /\ lastOp' = "BeginReading" /\ lastErr' = FALSE /\ replaced' = FALSE
                 /\ session' = "clean"
                 /\ run' = BeginRun(FALSE, readIterator.st = "closed")
                 /\ UNCHANGED <<backend, sliceVars, disk, writeOptions,
                                openWriteOpts, panicked, written, writing>>
    /\ UNCHANGED notStore

\* what a read of the freed iterator can return: any record or nil
FreedReads == {Rec(k, v, 0) : k \in LdbKeys, v \in Values} \cup {NilRecord}

\* ReadRecord on the iterator of the open session
ReadOpenIterator ==
    IF readIterator.pos > Len(readIterator.snap)
    THEN \* !Valid(): nil and readIterator.GetError(), which is nil at the
         \* end of the data and an error after a fault
         /\ run' = Returned(NilRecord)
         /\ lastErr' \in BOOLEAN
         /\ UNCHANGED readIterator
    ELSE /\ run' = Returned(readIterator.snap[readIterator.pos])
         /\ lastErr' = FALSE
         /\ readIterator' = [readIterator EXCEPT !.pos = @ + 1]

LevelDbStore_ReadRecord ==
    /\ backend = "leveldb" /\ panicked = ""
    /\ Len(run.out) <= LdbMaxKey
    /\ IF readIterator.st = "nil"
       THEN Panic(PanicNil, "ReadRecord")
       ELSE /\ IF readIterator.st = "closed"
               THEN \* the iterator EndReading destroyed is still in the
                    \* field: Valid() reads freed memory, and the call
                    \* crashes or returns whatever it finds there
                    \/ /\ panicked' = PanicFreed
                       /\ lastErr' = FALSE
                       /\ UNCHANGED <<readIterator, run>>
                    \/ /\ \E r \in FreedReads : run' = Returned(r)
                       /\ lastErr' \in BOOLEAN
                       /\ UNCHANGED <<readIterator, panicked>>
               ELSE /\ UNCHANGED panicked
                    /\ ReadOpenIterator
            /\ lastOp' = "ReadRecord" /\ replaced' = FALSE
            /\ UNCHANGED <<backend, sliceVars, disk, db, readOptions,
                           writeOptions, openIters, openWriteOpts, openDbs,
                           deleting, session, written, writing>>
    /\ UNCHANGED notStore

LevelDbStore_EndReading ==
    /\ backend = "leveldb" /\ panicked = ""
    /\ dbOpenLockFree /\ UNCHANGED deleting
    /\ IF ~readOptions
       THEN Panic(PanicNil, "EndReading")
       ELSE /\ readIterator' = ClosedIterator
            /\ openIters' = openIters - 1
            /\ db' = closeDatabase
            /\ openDbs' = openDbs - closeDatabaseCloses
            /\ readOptions' = FALSE
            /\ lastOp' = "EndReading" /\ lastErr' = FALSE /\ replaced' = FALSE
            /\ session' = "none"
            /\ run' = NoRun
            /\ UNCHANGED <<backend, sliceVars, disk, writeOptions,
                           openWriteOpts, panicked, written, writing>>
    /\ UNCHANGED notStore

LevelDbStore_BeginWriting ==
    /\ backend = "leveldb" /\ panicked = ""
    /\ dbOpenLockFree /\ UNCHANGED deleting
    /\ IF BeginWritingGuard
       THEN Panic(PanicWriteTwice, "BeginWriting")
       ELSE \E ok \in BOOLEAN :
            IF ~openDatabaseIsOpen /\ ~ok
            THEN /\ lastOp' = "BeginWriting" /\ lastErr' = TRUE /\ replaced' = FALSE
                 /\ run' = NoRun
                 /\ writeOptions' = OptionsAfterFailedOpen(writeOptions)
                 /\ UNCHANGED <<backend, sliceVars, disk, db, readOptions,
                                readIterator, openIters, openWriteOpts, openDbs,
                                panicked, session, written, writing>>
            ELSE /\ (openDatabaseIsOpen => ok)
                 /\ db' = "open"
                 /\ openDbs' = openDbs + openDatabaseOpens
                 /\ writeOptions' = TRUE
                 /\ writing' = TRUE
                 /\ openWriteOpts' = openWriteOpts + 1
                 /\ lastOp' = "BeginWriting" /\ lastErr' = FALSE /\ replaced' = FALSE
                 /\ run' = NoRun
                 /\ UNCHANGED <<backend, sliceVars, disk, readOptions,
                                readIterator, openIters, panicked, session,
                                written>>
    /\ UNCHANGED notStore

LevelDbStore_WriteRecord ==
    /\ backend = "leveldb" /\ panicked = ""
    /\ IF db # "open" \/ ~writeOptions
       THEN \* db.Put dereferences the nil db or the nil writeOptions
            Panic(PanicNil, "WriteRecord")
       ELSE /\ \/ \E k \in LdbKeys, v \in Values :
                    /\ disk' = [disk EXCEPT ![k] = v]
                    /\ written' = [written EXCEPT ![k] = v]
                    /\ replaced' = (written[k] \notin {0, v})
                    /\ lastErr' = FALSE
                    /\ deleting' = [deleting EXCEPT
                                       !.raced = (deleting.st = "loop")]
               \/ \* db.Put failed: the error is returned, nothing is stored
                  /\ lastErr' = TRUE /\ replaced' = FALSE
                  /\ UNCHANGED <<disk, written, deleting>>
            /\ lastOp' = "WriteRecord"
            /\ session' = IF session = "none" THEN "none" ELSE "dirty"
            /\ run' = NoRun
            /\ UNCHANGED <<backend, sliceVars, db, readOptions, writeOptions,
                           readIterator, openIters, openWriteOpts, openDbs,
                           panicked, writing>>
    /\ UNCHANGED notStore

LevelDbStore_EndWriting ==
    /\ backend = "leveldb" /\ panicked = ""
    /\ dbOpenLockFree /\ UNCHANGED deleting
    /\ IF ~writeOptions
       THEN Panic(PanicNil, "EndWriting")
       ELSE /\ openWriteOpts' = openWriteOpts - 1
            /\ db' = closeDatabase
            /\ openDbs' = openDbs - closeDatabaseCloses
            /\ writeOptions' = FALSE
            /\ writing' = FALSE
            /\ lastOp' = "EndWriting" /\ lastErr' = FALSE /\ replaced' = FALSE
            /\ run' = NoRun
            /\ UNCHANGED <<backend, sliceVars, disk, readOptions,
                           readIterator, openIters, panicked, session, written>>
    /\ UNCHANGED notStore

LevelDbStore_Seek ==
    /\ backend = "leveldb" /\ panicked = ""
    /\ UNCHANGED deleting
    /\ IF ~readOptions
       THEN Panic(PanicSeek, "Seek")
       ELSE /\ \E k \in LdbKeys :
                /\ readIterator' = IteratorSeek(readIterator, k)
                /\ run' = SeekRun(k)
            /\ lastOp' = "Seek" /\ lastErr' = FALSE /\ replaced' = FALSE
            /\ UNCHANGED <<backend, sliceVars, disk, db, readOptions,
                           writeOptions, openIters, openWriteOpts, openDbs,
                           panicked, session, written, writing>>
    /\ UNCHANGED notStore

\* DeleteAllRecords up to the first test of its loop: the lock, the guard,
\* the options and the iterator, a snapshot of the database
LevelDbStore_DeleteAllRecords ==
    /\ backend = "leveldb" /\ panicked = ""
    /\ dbOpenLockFree
    /\ IF ~readOptions /\ ~writeOptions
       THEN Panic(PanicDelete, "DeleteAllRecords")
       ELSE /\ deleting' = [st |-> "loop", pending |-> DiskKeys(disk),
                            raced |-> FALSE]
            /\ lastOp' = "DeleteAllRecords" /\ lastErr' = FALSE
            /\ replaced' = FALSE
            /\ run' = NoRun
            /\ UNCHANGED <<backend, sliceVars, disk, db, readOptions,
                           writeOptions, readIterator, openIters,
                           openWriteOpts, openDbs, panicked, session,
                           written, writing>>
    /\ UNCHANGED notStore

\* one pass of the loop of DeleteAllRecords, or its return; the other
\* routine's ReadRecord, WriteRecord and Seek, which take no lock, run
\* between the passes
LevelDbStore_DeleteAllRecords_loop ==
    /\ backend = "leveldb" /\ panicked = ""
    /\ deleting.st = "loop"
    /\ \/ \* it.Valid() and db.Delete(it.Key()) returned nil
          /\ deleting.pending # {}
          /\ disk' = DeleteKey(disk, Min(deleting.pending))
          /\ written' = [written EXCEPT ![Min(deleting.pending)] = 0]
          /\ deleting' = [deleting EXCEPT !.pending = @ \ {Min(@)}]
          /\ lastErr' = FALSE
       \/ \* it.Valid() and db.Delete failed ("Error clearing keys"), or
          \* !it.Valid() and it.GetError() is not nil ("Error iterating"),
          \* which a fault brings about before or after the last key
          /\ deleting' = NotDeleting
          /\ lastErr' = TRUE
          /\ UNCHANGED <<disk, written>>
       \/ \* !it.Valid() after the last key and it.GetError() is nil
          /\ deleting.pending = {}
          /\ deleting' = NotDeleting
          /\ lastErr' = FALSE
          /\ UNCHANGED <<disk, written>>
    /\ lastOp' = "DeleteAllRecords" /\ replaced' = FALSE
    /\ run' = NoRun
    /\ UNCHANGED <<backend, sliceVars, db, readOptions, writeOptions,
                   readIterator, openIters, openWriteOpts, openDbs,
                   panicked, session, writing>>
    /\ UNCHANGED notStore

StoreNext ==
    \/ SliceStore_BeginReading
    \/ SliceStore_ReadRecord
    \/ SliceStore_EndReading
    \/ SliceStore_BeginWriting
    \/ SliceStore_WriteRecord
    \/ SliceStore_EndWriting
    \/ SliceStore_DeleteAllRecords
    \/ SliceStore_Seek
    \/ SliceStore_Print
    \/ LevelDbStore_BeginReading
    \/ LevelDbStore_ReadRecord
    \/ LevelDbStore_EndReading
    \/ LevelDbStore_BeginWriting
    \/ LevelDbStore_WriteRecord
    \/ LevelDbStore_EndWriting
    \/ LevelDbStore_Seek
    \/ LevelDbStore_DeleteAllRecords
    \/ LevelDbStore_DeleteAllRecords_loop

\* the calls on a SliceStore
SliceStoreNext ==
    \/ SliceStore_BeginReading
    \/ SliceStore_ReadRecord
    \/ SliceStore_EndReading
    \/ SliceStore_BeginWriting
    \/ SliceStore_WriteRecord
    \/ SliceStore_EndWriting
    \/ SliceStore_DeleteAllRecords
    \/ SliceStore_Seek
    \/ SliceStore_Print

\* the calls on a LevelDbStore, and the passes of its delete loop
LevelDbStoreNext ==
    \/ LevelDbStore_BeginReading
    \/ LevelDbStore_ReadRecord
    \/ LevelDbStore_EndReading
    \/ LevelDbStore_BeginWriting
    \/ LevelDbStore_WriteRecord
    \/ LevelDbStore_EndWriting
    \/ LevelDbStore_Seek
    \/ LevelDbStore_DeleteAllRecords
    \/ LevelDbStore_DeleteAllRecords_loop

\* ------------------------------------------------- demux reader (k-way merge)
\* NewDemuxStoreReader(readers...) over SliceStores, as in
\* ExampleDemuxInputsSorted: the inputs are written, then the demux reader
\* is read to end-of-stream.

Inputs == 1..NumInputs

DemuxInit ==
    /\ readers = [i \in Inputs |-> EmptySlice]
    /\ frontier = [i \in Inputs |-> NilRecord]
    /\ demuxOut = <<>>
    /\ demuxPhase = "writing"

\* the sub-reader whose head has the smallest key; on a tie the lower input
\* index wins
DemuxSelectHighest(f) ==
    LET live == {i \in DOMAIN f : f[i] # NilRecord}
    IN  Max({i \in live : \A j \in live : f[i].key <= f[j].key})
DemuxSelect(f) ==
    LET live == {i \in DOMAIN f : f[i] # NilRecord}
    IN  Min({i \in live : \A j \in live : f[i].key <= f[j].key})

\* firstStore.WriteRecord(makeLevelDbRecord(k, v, idx)): input i holds the
\* records tagged i - 1
Demux_WriteInput ==
    /\ demuxPhase = "writing"
    /\ \E i \in Inputs, k \in Keys :
        readers' = [readers EXCEPT ![i] = SliceWriteRecord(@, Rec(k, i, i - 1))]
    /\ UNCHANGED <<frontier, demuxOut, demuxPhase>>
    /\ UNCHANGED notDemux

\* BeginReading opens every sub-reader and pulls one record from each
Demux_BeginReading ==
    /\ demuxPhase = "writing"
    /\ readers' = [i \in Inputs |->
                      SliceReadRecord(SliceBeginReading(readers[i])).store]
    /\ frontier' = [i \in Inputs |->
                      SliceReadRecord(SliceBeginReading(readers[i])).rec]
    /\ demuxPhase' = "reading"
    /\ UNCHANGED demuxOut
    /\ UNCHANGED notDemux

\* ReadRecord emits the selected head and refills its slot; with an empty
\* frontier it returns end-of-stream
Demux_ReadRecord ==
    /\ demuxPhase = "reading"
    /\ IF \A i \in Inputs : frontier[i] = NilRecord
       THEN /\ demuxPhase' = "ended"
            /\ UNCHANGED <<readers, frontier, demuxOut>>
       ELSE LET src == DemuxSelect(frontier)
            IN  /\ demuxOut' = Append(demuxOut, [rec |-> frontier[src], src |-> src])
                /\ readers' = [readers EXCEPT ![src] = SliceReadRecord(@).store]
                /\ frontier' = [frontier EXCEPT
                                   ![src] = SliceReadRecord(readers[src]).rec]
                /\ UNCHANGED demuxPhase
    /\ UNCHANGED notDemux

Demux_EndReading ==
    /\ demuxPhase \in {"reading", "ended"}
    /\ demuxPhase' = "closed"
    /\ UNCHANGED <<readers, frontier, demuxOut>>
    /\ UNCHANGED notDemux

DemuxNext ==
    \/ Demux_WriteInput
    \/ Demux_BeginReading
    \/ Demux_ReadRecord
    \/ Demux_EndReading

\* --------------------------------------------------------- exclusion reader
\* ReadExcludingRanges(reader, excludedRanges) over two SliceStores, as in
\* ExampleReadExcludingRanges: both stores are written in ascending key
\* order, then the excluding reader is read to end-of-stream.  A record of
\* the excluded-ranges store is one range: the example stores ("c", "e") and
\* ("h", "i") and the reader drops c, d, e and h from a .. k, so the key is
\* the begin of the range and the value its inclusive end.

ExKeys == 1..ExMaxKey
NoRange == [b |-> 0, e |-> 0]

ExcludingInit ==
    /\ source = EmptySlice
    /\ excluded = EmptySlice
    /\ currentRange = NoRange
    /\ excludingOut = <<>>
    /\ excludingPhase = "writing"

\* the range a record of the excluded-ranges store stands for
RangeOfBeginOnly(rec) == [b |-> rec.key, e |-> rec.key]
RangeOfSwapped(rec) == [b |-> rec.value, e |-> rec.key]
RangeOf(rec) == [b |-> rec.key, e |-> rec.value]

\* the next range: the next record of the excluded-ranges reader, NoRange at
\* its end-of-stream
NextRange(x) ==
    LET first == SliceReadRecord(x)
    IN  IF first.rec = NilRecord
        THEN [store |-> first.store, range |-> NoRange]
        ELSE [store |-> first.store, range |-> RangeOf(first.rec)]

RECURSIVE AdvanceRange(_, _, _)
\* advance the range pointer while k lies beyond the range's end
AdvanceRange(x, range, k) ==
    IF range # NoRange /\ k > range.e
    THEN AdvanceRange(NextRange(x).store, NextRange(x).range, k)
    ELSE [store |-> x, range |-> range]

InRangeHalfOpen(range, k) == range # NoRange /\ range.b <= k /\ k < range.e
InRange(range, k) == range # NoRange /\ range.b <= k /\ k <= range.e

RECURSIVE ExcludingRead(_, _, _)
\* ReadRecord: pull source records until one is not covered
ExcludingRead(src, x, range) ==
    LET pulled == SliceReadRecord(src)
        adv == AdvanceRange(x, range, pulled.rec.key)
    IN  IF pulled.rec = NilRecord
        THEN [source |-> pulled.store, excluded |-> x, range |-> range,
              rec |-> NilRecord]
        ELSE IF InRange(adv.range, pulled.rec.key)
        THEN ExcludingRead(pulled.store, adv.store, adv.range)
        ELSE [source |-> pulled.store, excluded |-> adv.store,
              range |-> adv.range, rec |-> pulled.rec]

\* the keys are written in ascending order, as the example writes them
AboveStored(store, k) ==
    \A n \in 1..Len(store.records) : store.records[n].key < k

Excluding_WriteSource ==
    /\ excludingPhase = "writing"
    /\ Len(source.records) < MaxSource
    /\ \E k \in ExKeys :
        /\ AboveStored(source, k)
        /\ source' = SliceWriteRecord(source, Rec(k, 1, 0))
    /\ UNCHANGED <<excluded, currentRange, excludingOut, excludingPhase>>
    /\ UNCHANGED notExcluding

Excluding_WriteExcluded ==
    /\ excludingPhase = "writing"
    /\ Len(excluded.records) < MaxExcluded
    /\ \E b \in ExKeys, e \in ExKeys :
        /\ AboveStored(excluded, b)
        /\ excluded' = SliceWriteRecord(excluded, Rec(b, e, 0))
    /\ UNCHANGED <<source, currentRange, excludingOut, excludingPhase>>
    /\ UNCHANGED notExcluding

\* BeginReading opens both readers and puts the pointer at the first range
Excluding_BeginReading ==
    /\ excludingPhase = "writing"
    /\ source' = SliceBeginReading(source)
    /\ LET first == NextRange(SliceBeginReading(excluded))
       IN  /\ excluded' = first.store
           /\ currentRange' = first.range
    /\ excludingPhase' = "reading"
    /\ UNCHANGED excludingOut
    /\ UNCHANGED notExcluding

Excluding_ReadRecord ==
    /\ excludingPhase = "reading"
    /\ LET got == ExcludingRead(source, excluded, currentRange)
       IN  /\ source' = got.source
           /\ excluded' = got.excluded
           /\ currentRange' = got.range
           /\ excludingOut' = IF got.rec = NilRecord THEN excludingOut
                              ELSE Append(excludingOut, got.rec)
           /\ excludingPhase' = IF got.rec = NilRecord THEN "ended"
                                ELSE "reading"
    /\ UNCHANGED notExcluding

Excluding_EndReading ==
    /\ excludingPhase \in {"reading", "ended"}
    /\ excludingPhase' = "closed"
    /\ UNCHANGED <<source, excluded, currentRange, excludingOut>>
    /\ UNCHANGED notExcluding

ExcludingNext ==
    \/ Excluding_WriteSource
    \/ Excluding_WriteExcluded
    \/ Excluding_BeginReading
    \/ Excluding_ReadRecord
    \/ Excluding_EndReading

\* ---------------------------------------------------------------- mux writer
\* NewMuxedStoreWriter(writers...) over SliceStores, as in
\* ExampleMuxedStoreWriter: tagged records are written through the mux, then
\* each sink is read in turn.

Sinks == 1..NumSinks

MuxInit ==
    /\ sinks = [i \in Sinks |-> EmptySlice]
    /\ sinkOpened = [i \in Sinks |-> FALSE]
    /\ muxInput = <<>>
    /\ muxPhase = "writing"
    /\ readingSink = 0
    /\ sinkState = "idle"
    /\ sinkOut = [i \in Sinks |-> <<>>]

\* the sink a record is routed to: the one its DatabaseIndex names (sink
\* i + 1 here for tag i); 0 when the tag is out of range
MuxRouteFirst(r) == IF r.idx < NumSinks THEN 1 ELSE 0
MuxRoute(r) == IF r.idx < NumSinks THEN r.idx + 1 ELSE 0

\* WriteRecord(r): r goes to the sink its tag names, whose write session is
\* opened on its first record; an out-of-range tag is a fatal failure.  The
\* value written is the position of the record in the input, so that every
\* written record is distinct.
Mux_WriteRecord ==
    /\ muxPhase = "writing"
    /\ Len(muxInput) < MaxMuxWrites
    /\ \E k \in Keys, d \in 0..NumSinks :
        LET r == Rec(k, Len(muxInput) + 1, d)
        IN  IF MuxRoute(r) = 0
            THEN /\ muxPhase' = "panicked"
                 /\ UNCHANGED <<sinks, sinkOpened, muxInput>>
            ELSE /\ sinks' = [sinks EXCEPT
                                 ![MuxRoute(r)] = SliceWriteRecord(@, r)]
                 /\ sinkOpened' = [sinkOpened EXCEPT ![MuxRoute(r)] = TRUE]
                 /\ muxInput' = Append(muxInput, r)
                 /\ UNCHANGED muxPhase
    /\ UNCHANGED <<readingSink, sinkState, sinkOut>>
    /\ UNCHANGED notMux

\* teardown: the opened sessions are closed
Mux_EndWriting ==
    /\ muxPhase = "writing"
    /\ muxPhase' = "written"
    /\ sinkOpened' = [i \in Sinks |-> FALSE]
    /\ UNCHANGED <<sinks, muxInput, readingSink, sinkState, sinkOut>>
    /\ UNCHANGED notMux

\* firstStore.BeginReading(), then secondStore.BeginReading(), ...
Sink_BeginReading ==
    /\ muxPhase \in {"writing", "written", "reading"}
    /\ sinkState = "idle"
    /\ readingSink < NumSinks
    /\ readingSink' = readingSink + 1
    /\ sinks' = [sinks EXCEPT ![readingSink + 1] = SliceBeginReading(@)]
    /\ sinkState' = "open"
    /\ muxPhase' = "reading"
    /\ UNCHANGED <<sinkOpened, muxInput, sinkOut>>
    /\ UNCHANGED notMux

Sink_ReadRecord ==
    /\ muxPhase = "reading"
    /\ sinkState = "open"
    /\ LET got == SliceReadRecord(sinks[readingSink])
       IN  /\ sinks' = [sinks EXCEPT ![readingSink] = got.store]
           /\ IF got.rec = NilRecord
              THEN /\ sinkState' = "ended"
                   /\ UNCHANGED sinkOut
              ELSE /\ sinkOut' = [sinkOut EXCEPT
                                     ![readingSink] = Append(@, got.rec)]
                   /\ UNCHANGED sinkState
    /\ UNCHANGED <<sinkOpened, muxInput, muxPhase, readingSink>>
    /\ UNCHANGED notMux

Sink_EndReading ==
    /\ muxPhase = "reading"
    /\ sinkState = "ended"
    /\ sinkState' = "idle"
    /\ muxPhase' = IF readingSink = NumSinks THEN "done" ELSE "reading"
    /\ UNCHANGED <<sinks, sinkOpened, muxInput, readingSink, sinkOut>>
    /\ UNCHANGED notMux

MuxNext ==
    \/ Mux_WriteRecord
    \/ Mux_EndWriting
    \/ Sink_BeginReading
    \/ Sink_ReadRecord
    \/ Sink_EndReading

\* ----------------------------------------------------------- truncating writer
\* TruncateBeforeWriting(store) over a SliceStore, as in
\* ExampleStoreWriterTruncate: write sessions through the truncating writer,
\* the underlying store read back between them.

TruncatingInit ==
    /\ truncStore = EmptySlice
    /\ truncPhase = "idle"
    /\ sessions = 0
    /\ sessionWrites = <<>>
    /\ earlierKeys = {}
    /\ truncOut = <<>>

\* BeginWriting opens the target's write session and deletes all its records
Truncating_BeginWriting ==
    /\ truncPhase = "idle"
    /\ sessions < MaxSessions
    /\ truncStore' = SliceDeleteAllRecords(truncStore)
    /\ sessionWrites' = <<>>
    /\ earlierKeys' = earlierKeys \cup
                          {sessionWrites[n].key : n \in 1..Len(sessionWrites)}
    /\ truncPhase' = "writing"
    /\ UNCHANGED <<sessions, truncOut>>
    /\ UNCHANGED notTruncating

Truncating_WriteRecord ==
    /\ truncPhase = "writing"
    /\ Len(sessionWrites) < MaxSessionWrites
    /\ \E k \in Keys, v \in Values :
        /\ truncStore' = SliceWriteRecord(truncStore, Rec(k, v, 0))
        /\ sessionWrites' = Append(sessionWrites, Rec(k, v, 0))
    /\ UNCHANGED <<truncPhase, sessions, earlierKeys, truncOut>>
    /\ UNCHANGED notTruncating

Truncating_EndWriting ==
    /\ truncPhase = "writing"
    /\ truncPhase' = "idle"
    /\ sessions' = sessions + 1
    /\ UNCHANGED <<truncStore, sessionWrites, earlierKeys, truncOut>>
    /\ UNCHANGED notTruncating

\* store.BeginReading() on the underlying store, between write sessions
Underlying_BeginReading ==
    /\ truncPhase = "idle"
    /\ truncStore' = SliceBeginReading(truncStore)
    /\ truncOut' = <<>>
    /\ truncPhase' = "reading"
    /\ UNCHANGED <<sessions, sessionWrites, earlierKeys>>
    /\ UNCHANGED notTruncating

Underlying_ReadRecord ==
    /\ truncPhase = "reading"
    /\ LET got == SliceReadRecord(truncStore)
       IN  /\ truncStore' = got.store
           /\ IF got.rec = NilRecord
              THEN /\ truncPhase' = "ended"
                   /\ UNCHANGED truncOut
              ELSE /\ truncOut' = Append(truncOut, got.rec)
                   /\ UNCHANGED truncPhase
    /\ UNCHANGED <<sessions, sessionWrites, earlierKeys>>
    /\ UNCHANGED notTruncating

Underlying_EndReading ==
    /\ truncPhase \in {"reading", "ended"}
    /\ truncPhase' = "idle"
    /\ truncOut' = <<>>
    /\ UNCHANGED <<truncStore, sessions, sessionWrites, earlierKeys>>
    /\ UNCHANGED notTruncating

TruncatingNext ==
    \/ Truncating_BeginWriting
    \/ Truncating_WriteRecord
    \/ Truncating_EndWriting
    \/ Underlying_BeginReading
    \/ Underlying_ReadRecord
    \/ Underlying_EndReading

\* -------------------------------------------------------------------- grouper
\* GroupRecords(records, &stringKey, &intKey) driven as in ExampleGrouper:
\*     for grouper.NextGroup() { for grouper.NextRecord() { grouper.Read() } }
\* A key is the tuple <<string, int32, suffix>> that lex.EncodeOrDie encodes;
\* the encoding keeps the order of the tuples, fields compared left to right.

Fields == 1..MaxField
Prefixes == Fields \X Fields

\* makeRecord(values...): a record with only a key
makeRecord(a, b, c) == Rec(<<a, b, c>>, 0, 0)

\* no record: the nil a closed channel delivers
NoRecord == Rec(<<>>, 0, 0)

\* lex.DecodeOrDie(key, &stringKey, &intKey): the two leading fields
DecodePrefix(key) == <<key[1], key[2]>>

\* the grouper over the input s, before the first call
GrouperOver(s) ==
    /\ stream = s
    /\ input = stream
    /\ peeked = NoRecord
    /\ current = NoRecord
    /\ activePrefix = <<>>
    /\ grouperPc = "NextGroup"
    /\ groups = <<>>
    /\ groupPrefixes = <<>>

\* any input of at most MaxStream records; the suffix of a record is its
\* position, so that the records are distinct
GrouperInit ==
    \E n \in 0..MaxStream : \E p \in [1..n -> Prefixes] :
        GrouperOver([i \in 1..n |-> makeRecord(p[i][1], p[i][2], i)])

\* the record the grouper looks at next: the pending peek, else the next
\* record of the channel, NoRecord when the channel is closed and empty
Peek == IF peeked # NoRecord THEN peeked
        ELSE IF input # <<>> THEN Head(input) ELSE NoRecord
AfterPeek == IF peeked # NoRecord \/ input = <<>> THEN input ELSE Tail(input)

\* whether a peeked record belongs to the group of the active prefix
GroupContinuesAlways(r, prefix) == TRUE
GroupContinues(r, prefix) == DecodePrefix(r.key) = prefix

\* NextGroup: the pending peek (or the next record) opens the next group
Grouper_NextGroup ==
    /\ grouperPc = "NextGroup"
    /\ input' = AfterPeek
    /\ peeked' = Peek
    /\ IF Peek = NoRecord
       THEN /\ grouperPc' = "done"
            /\ UNCHANGED <<activePrefix, groups, groupPrefixes>>
       ELSE /\ activePrefix' = DecodePrefix(Peek.key)
            /\ groupPrefixes' = Append(groupPrefixes, DecodePrefix(Peek.key))
            /\ groups' = Append(groups, <<>>)
            /\ grouperPc' = "NextRecord"
    /\ UNCHANGED <<stream, current>>
    /\ UNCHANGED notGrouper

\* NextRecord: yields the peeked record while its prefix is the active one,
\* else keeps it for the next group
Grouper_NextRecord ==
    /\ grouperPc = "NextRecord"
    /\ input' = AfterPeek
    /\ IF Peek # NoRecord /\ GroupContinues(Peek, activePrefix)
       THEN /\ current' = Peek
            /\ peeked' = NoRecord
            /\ grouperPc' = "Read"
       ELSE /\ peeked' = Peek
            /\ grouperPc' = "NextGroup"
            /\ UNCHANGED current
    /\ UNCHANGED <<stream, activePrefix, groups, groupPrefixes>>
    /\ UNCHANGED notGrouper

Grouper_Read ==
    /\ grouperPc = "Read"
    /\ groups' = [groups EXCEPT ![Len(groups)] = Append(@, current)]
    /\ grouperPc' = "NextRecord"
    /\ UNCHANGED <<stream, input, peeked, current, activePrefix, groupPrefixes>>
    /\ UNCHANGED notGrouper

GrouperNext ==
    \/ Grouper_NextGroup
    \/ Grouper_NextRecord
    \/ Grouper_Read

\* ============================================================ specifications
IdleStore == StoreInit /\ backend = "slice"

Init ==
    /\ StoreInit /\ DemuxInit /\ ExcludingInit /\ MuxInit
    /\ TruncatingInit /\ GrouperOver(<<>>)
Next == StoreNext
Spec == Init /\ [][Next]_vars

\* either store on its own
InitSliceStore == Init /\ backend = "slice"
SpecSliceStore == InitSliceStore /\ [][SliceStoreNext]_vars

InitLevelDbStore == Init /\ backend = "leveldb"
SpecLevelDbStore == InitLevelDbStore /\ [][LevelDbStoreNext]_vars

InitDemux ==
    /\ IdleStore /\ DemuxInit /\ ExcludingInit /\ MuxInit
    /\ TruncatingInit /\ GrouperOver(<<>>)
SpecDemux == InitDemux /\ [][DemuxNext]_vars

InitExcluding ==
    /\ IdleStore /\ DemuxInit /\ ExcludingInit /\ MuxInit
    /\ TruncatingInit /\ GrouperOver(<<>>)
SpecExcluding == InitExcluding /\ [][ExcludingNext]_vars

InitMux ==
    /\ IdleStore /\ DemuxInit /\ ExcludingInit /\ MuxInit
    /\ TruncatingInit /\ GrouperOver(<<>>)
SpecMux == InitMux /\ [][MuxNext]_vars

InitTruncating ==
    /\ IdleStore /\ DemuxInit /\ ExcludingInit /\ MuxInit
    /\ TruncatingInit /\ GrouperOver(<<>>)
SpecTruncating == InitTruncating /\ [][TruncatingNext]_vars

InitGrouper ==
    /\ IdleStore /\ DemuxInit /\ ExcludingInit /\ MuxInit
    /\ TruncatingInit /\ GrouperInit
SpecGrouper == InitGrouper /\ [][GrouperNext]_vars

\* ------------------------------------------------- properties of the stores
\* What the store holds, read off the representation as a set of records.
StoredRecords ==
    IF backend = "slice"
    THEN {records[i] : i \in 1..Len(records)}
    ELSE {Rec(k, disk[k], 0) : k \in {j \in LdbKeys : disk[j] # 0}}
StoredKeys == {r.key : r \in StoredRecords}
RecordOf(k) == CHOOSE r \in StoredRecords : r.key = k

RECURSIVE AscendingFrom(_)
\* the stored records with key >= k in ascending key order
AscendingFrom(k) ==
    IF k > MaxKey THEN <<>>
    ELSE (IF k \in StoredKeys THEN <<RecordOf(k)>> ELSE <<>>)
         \o AscendingFrom(k + 1)

\* the i-th result of reading on from key k: the records, then end-of-stream
ExpectedRead(k, i) ==
    IF i <= Len(AscendingFrom(k)) THEN AscendingFrom(k)[i] ELSE NilRecord

\* C6: the SliceStore holds at most one record per key, and the record held
\* for a key carries the value of the most recent WriteRecord for that key
\* since the last DeleteAllRecords (and no record for a key not written since).
C6_UpsertByKey ==
    backend = "slice" =>
        /\ \A i, j \in 1..Len(records) :
               records[i].key = records[j].key => i = j
        /\ \A k \in Keys :
               IF written[k] = 0
               THEN k \notin StoredKeys
               ELSE Rec(k, written[k], 0) \in StoredRecords

\* C6 witness: a WriteRecord has just replaced the value of a stored key
\* while the store holds other records too.
C6_Witness ==
    /\ backend = "slice"
    /\ replaced
    /\ Len(records) >= 2

\* C7: in a SliceStore read session in which no WriteRecord was issued, the
\* ReadRecord calls that follow Seek(k) return the stored records with key
\* >= k in ascending order, starting from the smallest such key, and then
\* end-of-stream.
C7_SeekThenRead ==
    (backend = "slice" /\ session = "clean" /\ run.kind = "seek") =>
        \A i \in 1..Len(run.out) : run.out[i] = ExpectedRead(run.key, i)

\* C7 witness: Seek(k) for a key that is not stored, with smaller and larger
\* keys stored; the reads returned the next larger key and then end-of-stream.
C7_Witness ==
    /\ backend = "slice" /\ session = "clean" /\ run.kind = "seek"
    /\ run.key \notin StoredKeys
    /\ \E k \in StoredKeys : k < run.key
    /\ Len(run.out) >= 2
    /\ run.out[1] # NilRecord
    /\ run.out[1].key > run.key
    /\ run.out[Len(run.out)] = NilRecord

\* C8: the successive ReadRecord calls after a SliceStore BeginReading
\* deliver the stored records in strictly ascending key order, each stored
\* key exactly once, and then end-of-stream.
C8_AscendingOnce ==
    (backend = "slice" /\ run.kind = "begin") =>
        /\ \A i \in 1..Len(run.out) : run.out[i] = ExpectedRead(1, i)
        /\ \A i, j \in 1..Len(run.out) :
               (i < j /\ run.out[j] # NilRecord) =>
                   (run.out[i] # NilRecord /\ run.out[i].key < run.out[j].key)
        /\ (\E i \in 1..Len(run.out) : run.out[i] = NilRecord) =>
               \A k \in StoredKeys :
                   Cardinality({i \in 1..Len(run.out) : run.out[i].key = k}) = 1

\* C8 witness: the records were not in key order when BeginReading was
\* called, and the session read them all up to end-of-stream.
C8_Witness ==
    /\ backend = "slice" /\ run.kind = "begin"
    /\ run.moved
    /\ Len(records) >= 3
    /\ Len(run.out) = Len(records) + 1

\* C9: the first ReadRecord after a BeginReading returns the record with the
\* smallest key in the store, or end-of-stream when the store is empty, on
\* both backends and wherever the cursor was before.
C9_BeginReadingRewinds ==
    (run.kind = "begin" /\ Len(run.out) >= 1) =>
        run.out[1] = IF StoredKeys = {} THEN NilRecord
                     ELSE RecordOf(Min(StoredKeys))

\* C9 witness: BeginReading found the cursor moved past the first record (or
\* an earlier session's iterator), and the first read returned a record.
C9_Witness ==
    /\ run.kind = "begin" /\ run.rewound
    /\ Len(run.out) = 1
    /\ run.out[1] # NilRecord
    /\ Cardinality(StoredKeys) >= 2

\* C10: on a LevelDbStore a BeginReading (BeginWriting) issued while a read
\* (write) session is open panics and changes nothing of the store, so there
\* is never a second iterator or a second WriteOptions; issued while no
\* session of that mode is open it does not panic, and it opens the session
\* unless it returns an error.
C10_NoSecondSession ==
    [][backend = "leveldb" =>
        /\ (lastOp' = "BeginReading" /\ readOptions) =>
               (panicked' = PanicReadTwice /\ UNCHANGED ldbVars)
        /\ (lastOp' = "BeginWriting" /\ writeOptions) =>
               (panicked' = PanicWriteTwice /\ UNCHANGED ldbVars)
        /\ (lastOp' = "BeginReading" /\ ~readOptions) =>
               (panicked' = "" /\ (lastErr' \/ readOptions'))
        /\ (lastOp' = "BeginWriting" /\ ~writeOptions) =>
               (panicked' = "" /\ (lastErr' \/ writeOptions'))
        /\ openIters' <= 1
        /\ openWriteOpts' <= 1]_vars

\* C10 witness: the program panicked in a BeginReading issued inside the
\* second read session of the store (the first one was ended, the second
\* accepted).
C10_Witness ==
    /\ backend = "leveldb"
    /\ panicked = PanicReadTwice
    /\ readOptions /\ readIterator.st = "open"
    /\ run.kind = "begin" /\ run.rewound

\* ---------------------------------------------- properties of the demux reader
\* The records of all the inputs, each paired with its input.
InputPairs ==
    UNION {{[rec |-> readers[i].records[n], src |-> i] :
               n \in 1..Len(readers[i].records)} : i \in Inputs}

PairBefore(a, b) ==
    a.rec.key < b.rec.key \/ (a.rec.key = b.rec.key /\ a.src < b.src)

RECURSIVE OrderedPairs(_)
\* the pairs of S in ascending (key, input index) order
OrderedPairs(S) ==
    IF S = {} THEN <<>>
    ELSE LET m == CHOOSE a \in S : \A b \in S \ {a} : PairBefore(a, b)
         IN  <<m>> \o OrderedPairs(S \ {m})

\* C1: what the demux reader has emitted is always the beginning of the input
\* records ordered by (key, input index), and at end-of-stream it is all of
\* them: every input record exactly once, keys non-decreasing, equal keys in
\* input order, each input's own order kept.
C1_DemuxIsSortedMerge ==
    demuxPhase \in {"reading", "ended", "closed"} =>
        /\ Len(demuxOut) <= Len(OrderedPairs(InputPairs))
        /\ demuxOut = SubSeq(OrderedPairs(InputPairs), 1, Len(demuxOut))
        /\ demuxPhase = "ended" => demuxOut = OrderedPairs(InputPairs)

\* C1 witness: end-of-stream was reached on inputs that share a key, the
\* records of that key came out lower input first, and both inputs held more.
C1_Witness ==
    /\ demuxPhase = "ended"
    /\ Len(demuxOut) >= 4
    /\ \E n \in 1..(Len(demuxOut) - 1) :
           /\ demuxOut[n].rec.key = demuxOut[n + 1].rec.key
           /\ demuxOut[n].src < demuxOut[n + 1].src
    /\ \E n \in 1..(Len(demuxOut) - 1) : demuxOut[n].src > demuxOut[n + 1].src

\* ------------------------------------------- properties of the exclusion reader
RECURSIVE Ascending(_)
\* the numbers of S in ascending order
Ascending(S) == IF S = {} THEN <<>> ELSE <<Min(S)>> \o Ascending(S \ {Min(S)})

KeysOf(store) == {store.records[n].key : n \in 1..Len(store.records)}

\* the closed intervals the excluded-ranges store stands for: one for each
\* of its records, from the record's key to the record's value
Intervals ==
    {[b |-> excluded.records[n].key, e |-> excluded.records[n].value] :
        n \in 1..Len(excluded.records)}

\* the intervals that the keys of the excluded-ranges store, in ascending
\* order and taken two by two, would stand for
KeyPairIntervals ==
    LET xs == Ascending(KeysOf(excluded))
    IN  {[b |-> xs[2 * n - 1], e |-> xs[2 * n]] : n \in 1..(Len(xs) \div 2)}

Covered(k) == \E r \in Intervals : r.b <= k /\ k <= r.e

\* the source records no interval covers, in ascending key order
Uncovered ==
    LET ks == Ascending({k \in KeysOf(source) : ~Covered(k)})
    IN  [n \in 1..Len(ks) |->
            CHOOSE r \in {source.records[m] : m \in 1..Len(source.records)} :
                r.key = ks[n]]

\* C2: what the exclusion reader has emitted is always the beginning of the
\* source records that no interval [b_i, e_i] covers, in source (ascending)
\* order, and at end-of-stream it is all of them; a covered record is never
\* emitted.
C2_ExcludesCoveredKeys ==
    excludingPhase \in {"reading", "ended", "closed"} =>
        /\ Len(excludingOut) <= Len(Uncovered)
        /\ excludingOut = SubSeq(Uncovered, 1, Len(excludingOut))
        /\ excludingPhase = "ended" => excludingOut = Uncovered

\* C2 witness: end-of-stream with two intervals, source records dropped at
\* an interval's begin and at an interval's end, and a record emitted.
C2_Witness ==
    /\ excludingPhase = "ended"
    /\ Cardinality(Intervals) = 2
    /\ \E r \in Intervals : r.b < r.e /\ r.b \in KeysOf(source)
                                      /\ r.e \in KeysOf(source)
    /\ Len(excludingOut) >= 1
    /\ Len(excludingOut) < Len(source.records)

\* C15 as stated: with an even number of excluded-ranges records, the
\* interval the reader is at is one of those formed by their keys taken
\* pairwise in sorted order, the 1st, 3rd, ... key a begin and the following
\* key its inclusive end.
C15_RangesFromKeyPairs ==
    (excludingPhase \in {"reading", "ended", "closed"}
        /\ Len(excluded.records) % 2 = 0) =>
        currentRange \in KeyPairIntervals \cup {NoRange}

\* C15: the interval the reader is at is that of one record of the
\* excluded-ranges reader, the record's key the begin and the record's value
\* the inclusive end; the records are taken one by one in sorted order, the
\* pointer being at the record the excluded-ranges reader returned last.
C15_RangesFromRecords ==
    excludingPhase \in {"reading", "ended", "closed"} =>
        /\ currentRange \in Intervals \cup {NoRange}
        /\ currentRange =
              IF excluded.cursor < Len(excluded.records)
              THEN RangeOf(excluded.records[excluded.cursor + 1])
              ELSE NoRange

\* C15 witness: as in the example, two records whose values are the ends of
\* two ranges; the reader went on to the second and dropped a source record
\* that lies between its key and its value.
C15_Witness ==
    /\ excludingPhase = "ended"
    /\ Len(excluded.records) = 2
    /\ excluded.records[1].value < excluded.records[2].key
    /\ currentRange = RangeOf(excluded.records[2])
    /\ \E k \in KeysOf(source) :
           /\ currentRange.b < k /\ k <= currentRange.e
           /\ \A n \in 1..Len(excludingOut) : excludingOut[n].key # k

\* ------------------------------------------------- properties of the mux writer
RECURSIVE SelectTagged(_, _)
\* the subsequence of the records of s whose tag names sink i
SelectTagged(s, i) ==
    IF s = <<>> THEN <<>>
    ELSE (IF Head(s).idx = i - 1 THEN <<Head(s)>> ELSE <<>>)
         \o SelectTagged(Tail(s), i)

\* the last record of s with key k
LastWithKey(s, k) == s[Max({n \in 1..Len(s) : s[n].key = k})]

\* s with a later record replacing an earlier one of the same key, in
\* ascending key order
LastWinsAscending(s) ==
    LET ks == Ascending({s[n].key : n \in 1..Len(s)})
    IN  [n \in 1..Len(ks) |-> LastWithKey(s, ks[n])]

StrictlyAscending(s) == \A n \in 1..(Len(s) - 1) : s[n].key < s[n + 1].key

\* C3 as stated: reading each sink back yields exactly the subsequence of the
\* written records tagged with that sink, in the order they were written.
C3_SinkIsSubsequence ==
    muxPhase = "done" =>
        \A i \in Sinks : sinkOut[i] = SelectTagged(muxInput, i)

\* C3 amended: reading each sink back yields the written records tagged with
\* that sink and no others, one record per key (the last one written for the
\* key), in ascending key order; this is the tagged subsequence in written
\* order exactly when that subsequence has strictly ascending keys.
C3_SinkIsSortedUpsert ==
    muxPhase = "done" =>
        \A i \in Sinks :
            /\ sinkOut[i] = LastWinsAscending(SelectTagged(muxInput, i))
            /\ \A n \in 1..Len(sinkOut[i]) : sinkOut[i][n].idx = i - 1
            /\ (sinkOut[i] = SelectTagged(muxInput, i))
                   <=> StrictlyAscending(SelectTagged(muxInput, i))

\* C3 witness: all sinks were read back after writes that interleave the
\* sinks, one sink receiving its keys in descending order.
C3_Witness ==
    /\ muxPhase = "done"
    /\ Len(muxInput) = MaxMuxWrites
    /\ \A i \in Sinks : sinkOut[i] # <<>>
    /\ \E i \in Sinks : ~StrictlyAscending(SelectTagged(muxInput, i))

\* ------------------------------------------ properties of the truncating writer
\* C4: after N completed truncating-writer sessions (N >= 1), reading the
\* underlying store to end-of-stream yields exactly the records written in
\* the N-th session, one per key with the last write winning, in ascending
\* key order; nothing of an earlier session remains.
C4_OnlyLastSession ==
    (truncPhase = "ended" /\ sessions >= 1) =>
        /\ truncOut = LastWinsAscending(sessionWrites)
        /\ \A n \in 1..Len(truncOut) :
               \E m \in 1..Len(sessionWrites) : truncOut[n] = sessionWrites[m]

\* C4 witness: the store was read to end-of-stream after a second session
\* that wrote one key twice and did not write a key of the first session.
C4_Witness ==
    /\ truncPhase = "ended"
    /\ sessions >= 2
    /\ Len(sessionWrites) = 2
    /\ sessionWrites[1].key = sessionWrites[2].key
    /\ sessionWrites[1].value # sessionWrites[2].value
    /\ \E k \in earlierKeys : k # sessionWrites[1].key
    /\ Len(truncOut) = 1

\* ---------------------------------------------------- properties of the grouper
RECURSIVE Flatten(_)
Flatten(g) == IF g = <<>> THEN <<>> ELSE Head(g) \o Flatten(Tail(g))

\* the order of the encoded keys: the tuples compared field by field
TupleLess(a, b) ==
    \E n \in 1..Len(a) :
        /\ n <= Len(b)
        /\ a[n] < b[n]
        /\ \A m \in 1..(n - 1) : a[m] = b[m]

StreamSorted == \A n \in 1..(Len(stream) - 1) :
                    TupleLess(stream[n].key, stream[n + 1].key)

\* C5: the records the loop has read, group after group, are always the
\* beginning of the input and at the end all of it; every record of a group
\* has the prefix of that group; consecutive groups have different prefixes;
\* for a sorted input the prefixes increase strictly from group to group.
C5_GroupsPartitionInput ==
    /\ Len(Flatten(groups)) <= Len(stream)
    /\ Flatten(groups) = SubSeq(stream, 1, Len(Flatten(groups)))
    /\ grouperPc = "done" => Flatten(groups) = stream
    /\ Len(groupPrefixes) = Len(groups)
    /\ \A g \in 1..Len(groups) : \A n \in 1..Len(groups[g]) :
           <<groups[g][n].key[1], groups[g][n].key[2]>> = groupPrefixes[g]
    /\ \A g \in 1..(Len(groups) - 1) : groupPrefixes[g] # groupPrefixes[g + 1]
    /\ StreamSorted =>
           \A g \in 1..(Len(groups) - 1) :
               TupleLess(groupPrefixes[g], groupPrefixes[g + 1])

\* C5 witness: the loop ended on a sorted input of several groups, one of
\* them with more than one record.
C5_Witness ==
    /\ grouperPc = "done"
    /\ StreamSorted
    /\ Len(stream) = MaxStream
    /\ Len(groups) >= 3
    /\ \E g \in 1..Len(groups) : Len(groups[g]) >= 2

\* ------------------------------------------------ properties of the sessions
\* a session of either mode is open on the SliceStore, as its caller sees it
SliceSessionOpen == session # "none" \/ writing

\* C11: on the SliceStore a BeginReading or BeginWriting issued while a
\* session of either mode is open is rejected with a panic, so that two
\* sessions are never open at once.
C11_SliceRejectsSecondSession ==
    [][(backend = "slice" /\ panicked = "" /\ SliceSessionOpen
            /\ lastOp' \in {"BeginReading", "BeginWriting"})
        => panicked' # ""]_vars

\* C12: the LevelDB database is open exactly when a read or a write session
\* is open, and the handles opened and not closed are one when a session is
\* open and none otherwise: no second Open while open, no Close while the
\* other session is open, one Close when the last session ends.
C12_DatabaseOpenIffSession ==
    backend = "leveldb" =>
        /\ (db = "open") <=> (readOptions \/ writeOptions)
        /\ openDbs = IF readOptions \/ writeOptions THEN 1 ELSE 0

\* C12 witness: the write session ended while the read session was open and
\* the database stayed open.
C12_Witness ==
    /\ backend = "leveldb"
    /\ lastOp = "EndWriting" /\ panicked = ""
    /\ readOptions /\ ~writeOptions
    /\ db = "open" /\ openDbs = 1

\* ------------------------------------------- properties of the error handling
\* the call made in this step follows, in the same session, a call that
\* returned an error
EndReadingAfterError ==
    lastErr /\ lastOp \in {"BeginReading", "ReadRecord"} /\ lastOp' = "EndReading"
EndWritingAfterError ==
    lastErr /\ lastOp \in {"BeginWriting", "WriteRecord"} /\ lastOp' = "EndWriting"

\* C13: EndReading (EndWriting) called after an operation of the session
\* returned an error, a failed BeginReading (BeginWriting) included, does
\* not panic and leaves the session closed and its iterator and options
\* released, and the database closed unless the other session holds it.
C13_EndAfterErrorReleases ==
    [][(panicked = "" /\ (EndReadingAfterError \/ EndWritingAfterError)) =>
        /\ panicked' = ""
        /\ EndReadingAfterError => (~readOptions' /\ openIters' = 0)
        /\ EndWritingAfterError => (~writeOptions' /\ openWriteOpts' = 0)
        /\ openDbs' = IF readOptions' \/ writeOptions' THEN 1 ELSE 0]_vars

\* C14: Seek on a store with no open read session (never begun, or ended)
\* panics, on the LevelDbStore and on the SliceStore, and leaves the cursor
\* and the iterator where they were.
C14_SeekOutsideSessionPanics ==
    [][(panicked = "" /\ session = "none" /\ lastOp' = "Seek") =>
        /\ panicked' # ""
        /\ cursor' = cursor
        /\ readIterator' = readIterator]_vars

\* ------------------------------------------------ properties of SliceStore.Seek
\* the cursor positions whose next record has a key >= k (Go's
\* records[c + 1] is records[c + 2] here)
SeekPositions(k) ==
    {c \in -1..(Len(records) - 2) : records[c + 2].key >= k}

\* C16 as stated: after Seek(k) the cursor is the largest position whose next
\* record has a key >= k.
C16_SeekLargestPosition ==
    (backend = "slice" /\ lastOp = "Seek" /\ SeekPositions(run.key) # {}) =>
        cursor = Max(SeekPositions(run.key))

\* C16: after Seek(k) the cursor is the smallest position whose next record
\* has a key >= k, and the position of the last record when no record has.
C16_SeekSmallestPosition ==
    (backend = "slice" /\ lastOp = "Seek") =>
        cursor = IF SeekPositions(run.key) = {} THEN Len(records) - 1
                 ELSE Min(SeekPositions(run.key))

\* C16 witness: Seek(k) with a smaller key stored before two keys >= k; the
\* cursor is on the smaller one, not before the last record.
C16_Witness ==
    /\ backend = "slice" /\ lastOp = "Seek"
    /\ Cardinality(SeekPositions(run.key)) >= 2
    /\ cursor = 0
    /\ cursor < Max(SeekPositions(run.key))

\* C19: Seek(k) does not change the records, and the cursor it leaves is
\* the one it leaves from any other cursor position and the one a second
\* Seek(k) leaves.
C19_SeekIsAbsolute ==
    [][(backend = "slice" /\ lastOp' = "Seek") =>
        /\ records' = records
        /\ \A c \in -1..MaxCursor :
               SliceSeek([records |-> records, cursor |-> c], run'.key).cursor
                   = cursor'
        /\ SliceSeek([records |-> records', cursor |-> cursor'], run'.key).cursor
               = cursor']_vars

\* C19 witness: in a read session the reads went past k, Seek(k) moved the
\* cursor back and the next reads delivered the records with key >= k again.
C19_Witness ==
    /\ backend = "slice" /\ session = "clean"
    /\ run.kind = "seek" /\ run.rewound
    /\ Len(run.out) >= 2
    /\ run.out[1].key = run.key
    /\ run.out[2] # NilRecord

\* -------------------------------------- properties of the LevelDbStore calls
\* the steps of a DeleteAllRecords call: it is entered, and it returns nil
DeleteAllRecordsEntered ==
    deleting.st = "idle" /\ lastOp' = "DeleteAllRecords"
DeleteAllRecordsReturnedNil ==
    deleting.st = "loop" /\ deleting'.st = "idle" /\ ~lastErr'

\* C17 as stated: DeleteAllRecords on a LevelDbStore panics when neither
\* session is open; inside a read session, a write session or both, when it
\* returns no error, the database holds no record afterwards.
C17_EmptyAfterwards ==
    [][(backend = "leveldb" /\ panicked = "") =>
        /\ DeleteAllRecordsEntered =>
               (panicked' = PanicDelete <=> (~readOptions /\ ~writeOptions))
        /\ DeleteAllRecordsReturnedNil => \A k \in LdbKeys : disk'[k] = 0]_vars

\* C17 amended: DeleteAllRecords on a LevelDbStore panics, changing nothing,
\* when neither session is open; inside a read session, a write session or
\* both it deletes the records its iterator found when the call began, so
\* that when it returns no error every one of them has been deleted, and the
\* database holds no record provided no WriteRecord stored one while the call
\* ran; from its first step to its return the same sessions are open, with
\* the same iterator, and the database stays open.
C17_DeleteAllRecords ==
    [][(backend = "leveldb" /\ panicked = "") =>
        /\ DeleteAllRecordsEntered =>
               IF ~readOptions /\ ~writeOptions
               THEN panicked' = PanicDelete /\ UNCHANGED ldbVars
               ELSE /\ panicked' = ""
                    /\ deleting'.st = "loop"
                    /\ deleting'.pending = StoredKeys
                    /\ disk' = disk
        /\ DeleteAllRecordsReturnedNil =>
               /\ deleting.pending = {}
               /\ ~deleting.raced => \A k \in LdbKeys : disk'[k] = 0
        /\ (deleting.st = "loop" \/ deleting'.st = "loop") =>
               /\ readOptions' = readOptions /\ writeOptions' = writeOptions
               /\ readIterator'.st = readIterator.st
               /\ readIterator'.snap = readIterator.snap
               /\ db = "open" /\ db' = "open" /\ openDbs' = openDbs]_vars

\* C17 witness: DeleteAllRecords returned nil inside a read session alone,
\* whose iterator had found records; the database is empty and open.
C17_Witness ==
    /\ backend = "leveldb" /\ panicked = ""
    /\ lastOp = "DeleteAllRecords" /\ ~lastErr
    /\ deleting.st = "idle"
    /\ readOptions /\ ~writeOptions
    /\ Len(readIterator.snap) >= 2
    /\ \A k \in LdbKeys : disk[k] = 0
    /\ db = "open"

\* C18: a BeginReading or BeginWriting that returns the error of opening the
\* database leaves the LevelDbStore as it was: no options, no iterator and
\* no handle are created, so the session is not marked open and the next
\* Begin of that mode passes the double-begin guard.
C18_FailedOpenChangesNothing ==
    [][(backend = "leveldb" /\ panicked = "" /\ lastErr'
            /\ lastOp' \in {"BeginReading", "BeginWriting"}) =>
        /\ UNCHANGED ldbVars
        /\ panicked' = ""
        /\ lastOp' = "BeginReading" => ~BeginReadingGuard'
        /\ lastOp' = "BeginWriting" => ~BeginWritingGuard']_vars

\* C18 witness: after a completed session that stored a record, BeginWriting
\* failed to open the database; no session is open and nothing is held.
C18_Witness ==
    /\ backend = "leveldb" /\ panicked = ""
    /\ lastOp = "BeginWriting" /\ lastErr
    /\ db = "closed"
    /\ \E k \in LdbKeys : disk[k] # 0
    /\ ~readOptions /\ ~writeOptions
    /\ openDbs = 0 /\ openWriteOpts = 0 /\ openIters = 0

====
